---- MODULE Spec2Model ----
(***************************************************************************)
(* vscode-csproj: the extension core (src/src/extension.ts) with its       *)
(* status bar (src/src/statusbar.ts) and its types (src/unnamed/part_000). *)
(* The module ./csproj (CsprojUtil) is not among the sources; its          *)
(* operations are modelled from the specification's sections 4.1-4.4.      *)
(*                                                                         *)
(* Execution model: one JavaScript event loop.  Every action below is one  *)
(* run-to-completion piece of a handler, from one await to the next.       *)
(***************************************************************************)
EXTENDS Integers, Sequences, FiniteSets, TLC

(***************************************************************************)
(* Bounds of the model.                                                    *)
(***************************************************************************)
\* events of the environment in one run: commands, save / editor / delete
\* notifications, rewrites of a descriptor file by somebody else
MaxEvents == 3
\* granularity of the logical clock, in milliseconds
TickMs == 1000

(***************************************************************************)
(* Program constants.                                                      *)
(***************************************************************************)
debounceDeleteTime == 2000

YES == "Yes"
NO == "Not Now"
NEVER == "Never For This File"
\* a prompt that is dismissed resolves to undefined
Undefined == "undefined"
\* a prompt whose promise rejects
Rejected == "rejected"

(***************************************************************************)
(* Paths.  A path is a record: the directory as a sequence of segments,    *)
(* the base name without extension, and the extension (path.extname).      *)
(***************************************************************************)
CsprojA == [dir |-> <<"D">>, name |-> "App", ext |-> ".csproj"]
FileA == [dir |-> <<"D">>, name |-> "a", ext |-> ".ts"]
FileB == [dir |-> <<"D", "img">>, name |-> "b", ext |-> ".png"]
FileX == [dir |-> <<"E">>, name |-> "x", ext |-> ".ts"]

\* the descriptor files of the workspace
Descriptors == {CsprojA}
\* the source files of the workspace that events are about
Files == {FileA, FileB, FileX}

NoCsproj == [dir |-> <<>>, name |-> "", ext |-> ""]
NoHandle == 0

(***************************************************************************)
(* ItemType (types: string | {[extension]: string}) as a tagged variant.   *)
(***************************************************************************)
Uniform(tag) == [kind |-> "string", tag |-> tag, map |-> <<>>]
ByExtension(map) == [kind |-> "object", tag |-> "", map |-> map]

DefaultItemType ==
    ByExtension([k \in {"*", ".ts"} |->
        IF k = "*" THEN "Content" ELSE "TypeScriptCompile"])

\* the values of the csproj.itemType setting the main specification draws from
ConfiguredItemTypes == {DefaultItemType, Uniform("Compile")}

\* JavaScript truthiness of a string
Truthy(s) == s # ""

\* obj[key] || fallback, for an object with string values
Lookup(map, key) == IF key \in DOMAIN map THEN map[key] ELSE ""

getTypeForFile(fileName, itemType) ==
    LET extension == fileName.ext
    IN  IF itemType.kind = "string"
        THEN itemType.tag
        ELSE IF Truthy(Lookup(itemType.map, extension))
             THEN Lookup(itemType.map, extension)
             ELSE IF Truthy(Lookup(itemType.map, "*"))
                  THEN Lookup(itemType.map, "*")
                  ELSE "Content"

(***************************************************************************)
(* CsprojUtil, modelled from the specification.                            *)
(***************************************************************************)
\* PathResolver: the nearest descriptor in the file's directory or above
RECURSIVE getPath(_)
getPath(dir) ==
    LET found == {d \in Descriptors : d.dir = dir}
    IN  IF found # {}
        THEN CHOOSE d \in found : TRUE
        ELSE IF dir = <<>>
             THEN NoCsproj
             ELSE getPath(SubSeq(dir, 1, Len(dir) - 1))

\* the path of a file relative to the descriptor's directory
relativeTo(fsPath, filePath) ==
    [dir |-> SubSeq(filePath.dir, Len(fsPath.dir) + 1, Len(filePath.dir)),
     name |-> filePath.name, ext |-> filePath.ext]

Item(fsPath, filePath, itemType) ==
    [Include |-> relativeTo(fsPath, filePath), tag |-> itemType]

\* hasEntry, on the item list of a descriptor
hasFile(csproj, filePath) ==
    \E i \in 1..Len(csproj.items) :
        csproj.items[i].Include = relativeTo(csproj.fsPath, filePath)

\* addEntry without its check for an existing entry
addFileAlways(csproj, filePath, itemType) ==
    Append(csproj.items, Item(csproj.fsPath, filePath, itemType))

\* addEntry: the item list after the call (a no-op when an entry exists)
addFile(csproj, filePath, itemType) ==
    IF hasFile(csproj, filePath)
    THEN csproj.items
    ELSE Append(csproj.items, Item(csproj.fsPath, filePath, itemType))

\* removeEntry: the item list after the call (a no-op when absent)
removeFile(csproj, filePath) ==
    LET rel == relativeTo(csproj.fsPath, filePath)
        hits == {i \in 1..Len(csproj.items) : csproj.items[i].Include = rel}
    IN  IF hits = {}
        THEN csproj.items
        ELSE LET k == CHOOSE i \in hits : \A j \in hits : i <= j
             IN  SubSeq(csproj.items, 1, k - 1)
                     \o SubSeq(csproj.items, k + 1, Len(csproj.items))
(***************************************************************************)
(* State.                                                                  *)
(***************************************************************************)
VARIABLES
    disk,            \* descriptor path -> the item list its file holds
    insts,           \* the Descriptor instances parsed so far; a handle is an index
    cache,           \* DescriptorCache: descriptor path -> handle, or NoHandle
    parsing,         \* descriptor path -> a parse of it is in flight
    suppressed,      \* the invalidation-suppression flag
    notif,           \* change notifications of the csproj watcher not yet delivered;
                     \* own and cached are bookkeeping the program does not read:
                     \* whose write it was, the handle cached when the file changed
    arrays,          \* the removal arrays created so far; a reference is an index
    csprojRemovals,  \* _csprojRemovals: the array deletions are pushed to
    lastArgs,        \* debounce: the array of the latest call, 0 when none
    timer,           \* debounce: milliseconds since the latest call, TimerIdle when none
    flights,         \* array index -> the invocation of the debounced function on it
    tasks,           \* slot -> a handler in flight
    ignorePaths,     \* globalState 'csproj.ignorePaths'
    statusBar,       \* _statusBarItemVisible and the item's text
    last,            \* the handler piece that ran last, with its input
    events,          \* the events of the environment so far
    message,         \* the window.show*Message call of the last piece, "" when none
    collecting,      \* bookkeeping the program does not read: milliseconds since
                     \* the first removal of the array being collected was queued
    typeCall         \* getTypeForFile applied on its own: arguments and result

vars == <<disk, insts, cache, parsing, suppressed, notif, arrays, csprojRemovals,
          lastArgs, timer, flights, tasks, ignorePaths, statusBar, last, events,
          message, collecting, typeCall>>

TimerIdle == 0 - 1

\* every handler and every array but the first is started by an event
TaskIds == 1..MaxEvents
ArrayIds == 1..(MaxEvents + 1)

NoTask == [pc |-> "free", kind |-> "", fsPath |-> NoCsproj, prompt |-> FALSE,
           csproj |-> NoHandle]
NoFlight == [pc |-> "none", i |-> 0, doDelete |-> FALSE]
NoCall == [fileName |-> NoCsproj, itemType |-> Uniform(""), type |-> Undefined]

\* the item lists a descriptor file may hold: FileA and FileB, each at most once
DiskContents ==
    LET a == Item(CsprojA, FileA, "TypeScriptCompile")
        b == Item(CsprojA, FileB, "Content")
    IN  {<<>>, <<a>>, <<b>>, <<a, b>>}

\* The status bar: extension.ts calls displayItem, hideItem and isVisible;
\* statusbar.ts names them displayStatusBarItem, hideStatusBarItem and visible.
Hidden == [visible |-> FALSE, contained |-> FALSE]
Shown(contained) == [visible |-> TRUE, contained |-> contained]

Init ==
    /\ disk \in [Descriptors -> DiskContents]
    /\ insts = <<>>
    /\ cache = [d \in Descriptors |-> NoHandle]
    /\ parsing = [d \in Descriptors |-> FALSE]
    /\ suppressed = FALSE
    /\ notif = {}
    /\ arrays = << <<>> >>
    /\ csprojRemovals = 1
    /\ lastArgs = 0
    /\ timer = TimerIdle
    /\ flights = [k \in ArrayIds |-> NoFlight]
    /\ tasks = [t \in TaskIds |-> NoTask]
    /\ ignorePaths = <<>>
    /\ statusBar = Hidden
    /\ last = [op |-> "activate", arg |-> ""]
    /\ events = 0
    /\ message = ""
    /\ collecting = TimerIdle
    /\ typeCall = NoCall
(***************************************************************************)
(* Helpers.                                                                *)
(***************************************************************************)
InList(list, x) == \E i \in 1..Len(list) : list[i] = x

\* continuations of a settled promise run before any other event
Ready == {t \in TaskIds : tasks[t].pc \in {"resolved", "rejected"}}
FreeSlots == {t \in TaskIds : tasks[t].pc = "free"}
NewSlot == CHOOSE t \in FreeSlots : \A u \in FreeSlots : t <= u

\* a piece of a handler that no new event starts
Stamp(op, arg) ==
    /\ last' = [op |-> op, arg |-> arg]
    /\ UNCHANGED <<events, typeCall>>

\* a piece that a new event of the environment starts
Event(op, arg) ==
    /\ events < MaxEvents
    /\ last' = [op |-> op, arg |-> arg]
    /\ events' = events + 1
    /\ UNCHANGED typeCall

\* csproj.includeRegex ('.*' by default) and csproj.excludeRegex (null by default)
includeRegexTest(queryPath) == TRUE
excludeRegexTest(queryPath) == FALSE

\* an isDesiredFile that does not look at the ignore list
isDesiredFileUnlisted(queryPath) ==
    /\ includeRegexTest(queryPath)
    /\ ~excludeRegexTest(queryPath)

isDesiredFile(queryPath) ==
    /\ ~InList(ignorePaths, queryPath)
    /\ includeRegexTest(queryPath)
    /\ ~excludeRegexTest(queryPath)

\* visible: StatusBar.isVisible() at the time of the call
ignoreEvent(visible, fsPath) == ~isDesiredFile(fsPath) \/ visible

\* DescriptorCache.invalidate: the cache after the call
invalidate(path) == IF suppressed THEN cache ELSE [cache EXCEPT ![path] = NoHandle]

\* Persister.write succeeded: the file holds the instance's items, and the
\* csproj watcher will report the change
persist(h) ==
    /\ disk' = [disk EXCEPT ![insts[h].fsPath] = insts[h].items]
    /\ notif' = notif \cup {[path |-> insts[h].fsPath, own |-> TRUE,
                             cached |-> cache[insts[h].fsPath]]}

(***************************************************************************)
(* forFile: a handler in a new slot asks for the descriptor of fsPath.     *)
(* A cache hit resolves at once; a miss joins the parse in flight for the  *)
(* path or starts one; no descriptor above the file rejects with           *)
(* NoCsprojError.                                                          *)
(***************************************************************************)
forFile(kind, fsPath, prompt) ==
    LET d == getPath(fsPath.dir)
        t == NewSlot
        task == [pc |-> "resolve", kind |-> kind, fsPath |-> fsPath,
                 prompt |-> prompt, csproj |-> NoHandle]
    IN  IF d = NoCsproj
        THEN /\ tasks' = [tasks EXCEPT ![t] = [task EXCEPT !.pc = "rejected"]]
             /\ UNCHANGED parsing
        ELSE IF cache[d] # NoHandle
             THEN /\ tasks' = [tasks EXCEPT ![t] =
                         [task EXCEPT !.pc = "resolved", !.csproj = cache[d]]]
                  /\ UNCHANGED parsing
             ELSE /\ tasks' = [tasks EXCEPT ![t] = task]
                  /\ parsing' = [parsing EXCEPT ![d] = TRUE]

\* a resolver that parses once per caller: every waiter gets an instance of its own
ParsePerCaller(d) ==
    LET waiters == {t \in TaskIds :
                       tasks[t].pc = "resolve" /\ getPath(tasks[t].fsPath.dir) = d}
        handle(t) == Len(insts) + Cardinality({u \in waiters : u <= t})
    IN  /\ Ready = {}
        /\ parsing[d]
        /\ insts' = [i \in 1..(Len(insts) + Cardinality(waiters)) |->
                IF i <= Len(insts) THEN insts[i] ELSE [fsPath |-> d, items |-> disk[d]]]
        /\ cache' = [cache EXCEPT ![d] = Len(insts) + Cardinality(waiters)]
        /\ parsing' = [parsing EXCEPT ![d] = FALSE]
        /\ tasks' = [t \in TaskIds |->
                IF t \in waiters
                THEN [tasks[t] EXCEPT !.pc = "resolved", !.csproj = handle(t)]
                ELSE tasks[t]]
        /\ Stamp("parse", d.name)
        /\ message' = ""
        /\ UNCHANGED <<disk, suppressed, notif, arrays, csprojRemovals, lastArgs,
                       timer, flights, ignorePaths, statusBar, collecting>>

\* the parse in flight for d completes: one new instance, given to every waiter
ParseDone(d) ==
    /\ Ready = {}
    /\ parsing[d]
    /\ insts' = Append(insts, [fsPath |-> d, items |-> disk[d]])
    /\ cache' = [cache EXCEPT ![d] = Len(insts) + 1]
    /\ parsing' = [parsing EXCEPT ![d] = FALSE]
    /\ tasks' = [t \in TaskIds |->
            IF tasks[t].pc = "resolve" /\ getPath(tasks[t].fsPath.dir) = d
            THEN [tasks[t] EXCEPT !.pc = "resolved", !.csproj = Len(insts) + 1]
            ELSE tasks[t]]
    /\ Stamp("parse", d.name)
    /\ message' = ""
    /\ UNCHANGED <<disk, suppressed, notif, arrays, csprojRemovals, lastArgs,
                   timer, flights, ignorePaths, statusBar, collecting>>

\* a catch that shows every error, NoCsprojError included
NoCsprojShown(t) ==
    /\ tasks[t].pc = "rejected"
    /\ tasks' = [tasks EXCEPT ![t] = NoTask]
    /\ message' = "error"
    /\ Stamp("noCsproj", tasks[t].kind)
    /\ UNCHANGED <<disk, insts, cache, parsing, suppressed, notif, arrays,
                   csprojRemovals, lastArgs, timer, flights, ignorePaths, statusBar,
                   collecting>>

\* forFile rejected with NoCsprojError and the caller caught it: csprojCommand
\* and handleFileDeletion only log, csprojRemoveCommand shows an error
NoCsprojCaught(t) ==
    /\ tasks[t].pc = "rejected"
    /\ tasks' = [tasks EXCEPT ![t] = NoTask]
    /\ message' = IF tasks[t].kind = "remove" THEN "error" ELSE ""
    /\ Stamp("noCsproj", tasks[t].kind)
    /\ UNCHANGED <<disk, insts, cache, parsing, suppressed, notif, arrays,
                   csprojRemovals, lastArgs, timer, flights, ignorePaths, statusBar,
                   collecting>>

(***************************************************************************)
(* The add command.                                                        *)
(***************************************************************************)
csprojCommand(fsPath, prompt) ==
    IF fsPath.ext = ".csproj" \/ fsPath.dir = <<>>
    THEN UNCHANGED <<tasks, parsing>>
    ELSE forFile("add", fsPath, prompt)

OnDidSaveTextDocument(f) ==
    /\ Ready = {}
    /\ Event("save", f.name)
    /\ ~ignoreEvent(statusBar.visible, f)
    /\ csprojCommand(f, TRUE)
    /\ message' = ""
    /\ UNCHANGED <<disk, insts, cache, suppressed, notif, arrays, csprojRemovals,
                   lastArgs, timer, flights, ignorePaths, statusBar, collecting>>

OnDidChangeActiveTextEditor(f) ==
    /\ Ready = {}
    /\ Event("editor", f.name)
    /\ statusBar' = Hidden
    /\ IF ignoreEvent(FALSE, f)
       THEN UNCHANGED <<tasks, parsing>>
       ELSE csprojCommand(f, TRUE)
    /\ message' = ""
    /\ UNCHANGED <<disk, insts, cache, suppressed, notif, arrays, csprojRemovals,
                   lastArgs, timer, flights, ignorePaths, collecting>>

\* extension.csproj.add run by the user (the status bar item, the palette)
AddCommand(f) ==
    /\ Ready = {}
    /\ Event("add", f.name)
    /\ csprojCommand(f, FALSE)
    /\ message' = ""
    /\ UNCHANGED <<disk, insts, cache, suppressed, notif, arrays, csprojRemovals,
                   lastArgs, timer, flights, ignorePaths, statusBar, collecting>>

\* pickActions[YES] up to its await of persist
pickYes(t, itemType) ==
    LET h == tasks[t].csproj
        f == tasks[t].fsPath
    IN  /\ insts' = [insts EXCEPT ![h].items =
                addFile(insts[h], f, getTypeForFile(f, itemType))]
        /\ tasks' = [tasks EXCEPT ![t].pc = "persist"]
        /\ UNCHANGED <<ignorePaths, statusBar>>

\* a default action that confirms instead of declining
pickNoConfirms(t) == pickYes(t, DefaultItemType)

\* pickActions[NO]
pickNo(t) ==
    /\ statusBar' = Shown(FALSE)
    /\ tasks' = [tasks EXCEPT ![t] = NoTask]
    /\ UNCHANGED <<insts, ignorePaths>>

\* pickActions[NEVER], with updateIgnoredPaths
pickNever(t) ==
    /\ ignorePaths' = Append(ignorePaths, tasks[t].fsPath)
    /\ statusBar' = Hidden
    /\ tasks' = [tasks EXCEPT ![t] = NoTask]
    /\ UNCHANGED insts

\* the add prompt rejected: the catch of csprojCommand shows the error
pickFailed(t) ==
    /\ tasks' = [tasks EXCEPT ![t] = NoTask]
    /\ UNCHANGED <<insts, ignorePaths, statusBar>>

\* (pickActions[pickResult] || pickActions[NO])(...)
pickAction(t, pickResult, itemType) ==
    CASE pickResult = YES -> pickYes(t, itemType)
      [] pickResult = NEVER -> pickNever(t)
      [] pickResult = Rejected -> pickFailed(t)
      [] OTHER -> pickNo(t)

\* csprojCommand after forFile resolved
AddResolved(t) ==
    LET h == tasks[t].csproj
        f == tasks[t].fsPath
    IN  /\ tasks[t].pc = "resolved"
        /\ tasks[t].kind = "add"
        /\ IF hasFile(insts[h], f)
           THEN /\ statusBar' = Shown(TRUE)
                /\ tasks' = [tasks EXCEPT ![t] = NoTask]
                /\ UNCHANGED <<insts, ignorePaths>>
           ELSE IF tasks[t].prompt
                THEN /\ tasks' = [tasks EXCEPT ![t].pc = "prompt"]
                     /\ UNCHANGED <<insts, ignorePaths, statusBar>>
                ELSE \E itemType \in ConfiguredItemTypes : pickAction(t, YES, itemType)
        /\ message' = IF hasFile(insts[h], f)
                      THEN IF tasks[t].prompt THEN "" ELSE "warning"
                      ELSE IF tasks[t].prompt THEN "information" ELSE ""
        /\ Stamp("addResolved", f.name)
        /\ UNCHANGED <<disk, cache, parsing, suppressed, notif, arrays,
                       csprojRemovals, lastArgs, timer, flights, collecting>>

\* the add prompt is answered, dismissed (undefined) or fails
AddAnswer(t, pickResult) ==
    /\ Ready = {}
    /\ tasks[t].pc = "prompt"
    /\ \E itemType \in ConfiguredItemTypes : pickAction(t, pickResult, itemType)
    /\ message' = CASE pickResult = NEVER -> "information"
                     [] pickResult = Rejected -> "error"
                     [] OTHER -> ""
    /\ Stamp("addAnswer", pickResult)
    /\ UNCHANGED <<disk, cache, parsing, suppressed, notif, arrays,
                   csprojRemovals, lastArgs, timer, flights, collecting>>
\* the write awaited by a command completes (ok) or fails; a failure is
\* caught at the command boundary and shown, the instance is left as it is
PersistDone(t, ok) ==
    LET h == tasks[t].csproj
    IN  /\ Ready = {}
        /\ tasks[t].pc = "persist"
        /\ IF ok THEN persist(h) ELSE UNCHANGED <<disk, notif>>
        /\ statusBar' = IF ok /\ tasks[t].kind = "add" THEN Shown(TRUE) ELSE statusBar
        /\ tasks' = [tasks EXCEPT ![t] = NoTask]
        /\ message' = IF ~ok THEN "error"
                      ELSE IF tasks[t].kind = "add" THEN "information" ELSE ""
        /\ Stamp(IF ok THEN "persisted" ELSE "persistFailed", tasks[t].kind)
        /\ UNCHANGED <<insts, cache, parsing, suppressed, arrays, csprojRemovals,
                       lastArgs, timer, flights, ignorePaths, collecting>>

(***************************************************************************)
(* The remove command.                                                     *)
(***************************************************************************)
\* extension.csproj.remove run by the user: no csproj argument
RemoveCommand(f) ==
    /\ Ready = {}
    /\ Event("remove", f.name)
    /\ forFile("remove", f, FALSE)
    /\ message' = ""
    /\ UNCHANGED <<disk, insts, cache, suppressed, notif, arrays, csprojRemovals,
                   lastArgs, timer, flights, ignorePaths, statusBar, collecting>>

\* csprojRemoveCommand from its try block on: the instances after removeFile
csprojRemoveCommand(h, fsPath) ==
    [insts EXCEPT ![h].items = removeFile(insts[h], fsPath)]

\* csprojRemoveCommand after forFile resolved; it persists, csproj was not provided
RemoveResolved(t) ==
    /\ tasks[t].pc = "resolved"
    /\ tasks[t].kind = "remove"
    /\ insts' = csprojRemoveCommand(tasks[t].csproj, tasks[t].fsPath)
    /\ tasks' = [tasks EXCEPT ![t].pc = "persist"]
    /\ message' = ""
    /\ Stamp("removeResolved", tasks[t].fsPath.name)
    /\ UNCHANGED <<disk, cache, parsing, suppressed, notif, arrays, csprojRemovals,
                   lastArgs, timer, flights, ignorePaths, statusBar, collecting>>

(***************************************************************************)
(* Deletions: handleFileDeletion and the debounced removal.                *)
(***************************************************************************)
OnDidDelete(f) ==
    /\ Ready = {}
    /\ Event("delete", f.name)
    /\ forFile("delete", f, FALSE)
    /\ message' = ""
    /\ UNCHANGED <<disk, insts, cache, suppressed, notif, arrays, csprojRemovals,
                   lastArgs, timer, flights, ignorePaths, statusBar, collecting>>

\* a debounce whose calls do not restart a wait that is running
debouncedNoRestart(removals) ==
    /\ lastArgs' = removals
    /\ timer' = IF timer = TimerIdle THEN 0 ELSE timer

\* lodash debounce, trailing edge: a call keeps its arguments and restarts the wait
debounced(removals) ==
    /\ lastArgs' = removals
    /\ timer' = 0

\* a handleFileDeletion that queues the removal without asking hasFile
DeleteResolvedUnchecked(t) ==
    LET h == tasks[t].csproj
        f == tasks[t].fsPath
    IN  /\ tasks[t].pc = "resolved"
        /\ tasks[t].kind = "delete"
        /\ arrays' = [arrays EXCEPT ![csprojRemovals] =
                Append(@, [csproj |-> h, filePath |-> f])]
        /\ debounced(csprojRemovals)
        /\ collecting' = IF arrays[csprojRemovals] = <<>> THEN 0 ELSE collecting
        /\ tasks' = [tasks EXCEPT ![t] = NoTask]
        /\ message' = ""
        /\ Stamp("deleteResolved", f.name)
        /\ UNCHANGED <<disk, insts, cache, parsing, suppressed, notif,
                       csprojRemovals, flights, ignorePaths, statusBar>>

\* handleFileDeletion after forFile resolved
DeleteResolved(t) ==
    LET h == tasks[t].csproj
        f == tasks[t].fsPath
    IN  /\ tasks[t].pc = "resolved"
        /\ tasks[t].kind = "delete"
        /\ IF ~hasFile(insts[h], f)
           THEN UNCHANGED <<arrays, lastArgs, timer, collecting>>
           ELSE /\ arrays' = [arrays EXCEPT ![csprojRemovals] =
                        Append(@, [csproj |-> h, filePath |-> f])]
                /\ debounced(csprojRemovals)
                /\ collecting' = IF arrays[csprojRemovals] = <<>> THEN 0 ELSE collecting
        /\ tasks' = [tasks EXCEPT ![t] = NoTask]
        /\ message' = ""
        /\ Stamp("deleteResolved", f.name)
        /\ UNCHANGED <<disk, insts, cache, parsing, suppressed, notif,
                       csprojRemovals, flights, ignorePaths, statusBar>>

\* the logical clock advances while the debounce timer is pending
Tick ==
    /\ Ready = {}
    /\ timer # TimerIdle
    /\ timer < debounceDeleteTime
    /\ timer' = IF timer + TickMs < debounceDeleteTime
                THEN timer + TickMs ELSE debounceDeleteTime
    /\ collecting' = collecting + (timer' - timer)
    /\ message' = ""
    /\ Stamp("tick", "")
    /\ UNCHANGED <<disk, insts, cache, parsing, suppressed, notif, arrays,
                   csprojRemovals, lastArgs, flights, tasks, ignorePaths, statusBar>>

\* an onCall that leaves _csprojRemovals pointing at the array being flushed
onCallKeepsArray ==
    /\ arrays' = Append(arrays, <<>>)
    /\ csprojRemovals' = csprojRemovals

\* an onCall that empties the array in place: _csprojRemovals.length = 0
onCallClearsInPlace ==
    /\ arrays' = [arrays EXCEPT ![csprojRemovals] = <<>>]
    /\ csprojRemovals' = csprojRemovals

\* onCall: () => { _csprojRemovals = [] }
onCall ==
    /\ arrays' = Append(arrays, <<>>)
    /\ csprojRemovals' = Len(arrays) + 1

\* the debounced function up to its prompt: flights after the call
flushStart(k, silentDeletion) ==
    IF Len(arrays[k]) = 0
    THEN [flights EXCEPT ![k] = [pc |-> "failed", i |-> 0, doDelete |-> FALSE]]
    ELSE IF silentDeletion
         THEN [flights EXCEPT ![k] = [pc |-> "remove", i |-> 1, doDelete |-> TRUE]]
         ELSE [flights EXCEPT ![k] = [pc |-> "prompt", i |-> 0, doDelete |-> FALSE]]

\* a debounce that fires once the batch is a window old, whatever was queued since
TimerExpiredAccumulated ==
    /\ Ready = {}
    /\ timer # TimerIdle
    /\ collecting >= debounceDeleteTime
    /\ onCall
    /\ suppressed' = TRUE
    /\ \E silentDeletion \in BOOLEAN :
           /\ flights' = flushStart(lastArgs, silentDeletion)
           /\ message' = IF flights'[lastArgs].pc = "prompt" THEN "warning" ELSE ""
    /\ lastArgs' = 0
    /\ timer' = TimerIdle
    /\ collecting' = TimerIdle
    /\ Stamp("flush", "")
    /\ UNCHANGED <<disk, insts, cache, parsing, notif, tasks, ignorePaths, statusBar>>

\* the wait has elapsed: the debounced function is invoked with the latest arguments
TimerExpired ==
    /\ Ready = {}
    /\ timer # TimerIdle
    /\ timer >= debounceDeleteTime
    /\ onCall
    /\ suppressed' = TRUE
    /\ \E silentDeletion \in BOOLEAN :
           /\ flights' = flushStart(lastArgs, silentDeletion)
           /\ message' = IF flights'[lastArgs].pc = "prompt" THEN "warning" ELSE ""
    /\ lastArgs' = 0
    /\ timer' = TimerIdle
    /\ collecting' = TimerIdle
    /\ Stamp("flush", "")
    /\ UNCHANGED <<disk, insts, cache, parsing, notif, tasks, ignorePaths, statusBar>>

\* the confirmation is answered Yes, dismissed (undefined) or fails
FlushAnswer(k, pickResult) ==
    /\ Ready = {}
    /\ flights[k].pc = "prompt"
    /\ CASE pickResult = YES ->
              /\ flights' = [flights EXCEPT ![k] =
                      [pc |-> "remove", i |-> 1, doDelete |-> TRUE]]
              /\ UNCHANGED suppressed
         [] pickResult = Rejected ->
              /\ flights' = [flights EXCEPT ![k].pc = "failed"]
              /\ UNCHANGED suppressed
         [] OTHER ->
              /\ flights' = [flights EXCEPT ![k].pc = "done"]
              /\ suppressed' = FALSE
    /\ message' = ""
    /\ Stamp("flushAnswer", pickResult)
    /\ UNCHANGED <<disk, insts, cache, parsing, notif, arrays, csprojRemovals,
                   lastArgs, timer, tasks, ignorePaths, statusBar, collecting>>

\* one iteration of the removal loop: extension.csproj.remove with the csproj
\* of the pending removal provided, so the command does not persist
FlushRemove(k) ==
    LET i == flights[k].i
    IN  /\ Ready = {}
        /\ flights[k].pc = "remove"
        /\ i <= Len(arrays[k])
        /\ insts' = csprojRemoveCommand(arrays[k][i].csproj, arrays[k][i].filePath)
        /\ flights' = [flights EXCEPT ![k].i = i + 1]
        /\ message' = ""
        /\ Stamp("flushRemove", arrays[k][i].filePath.name)
        /\ UNCHANGED <<disk, cache, parsing, suppressed, notif, arrays, csprojRemovals,
                       lastArgs, timer, tasks, ignorePaths, statusBar, collecting>>

\* the loop is over: CsprojUtil.enableInvalidation()
FlushEnd(k) ==
    /\ Ready = {}
    /\ flights[k].pc = "remove"
    /\ flights[k].i > Len(arrays[k])
    /\ suppressed' = FALSE
    /\ flights' = [flights EXCEPT ![k].pc = "done"]
    /\ message' = ""
    /\ Stamp("flushEnd", "")
    /\ UNCHANGED <<disk, insts, cache, parsing, notif, arrays, csprojRemovals,
                   lastArgs, timer, tasks, ignorePaths, statusBar, collecting>>

(***************************************************************************)
(* The csproj watcher, the ignore list, the environment.                   *)
(***************************************************************************)
\* somebody else rewrites a descriptor file
ExternalChange(d, items) ==
    /\ Ready = {}
    /\ Event("externalChange", d.name)
    /\ items # disk[d]
    /\ disk' = [disk EXCEPT ![d] = items]
    /\ notif' = notif \cup {[path |-> d, own |-> FALSE, cached |-> cache[d]]}
    /\ message' = ""
    /\ UNCHANGED <<insts, cache, parsing, suppressed, arrays, csprojRemovals,
                   lastArgs, timer, flights, tasks, ignorePaths, statusBar, collecting>>

\* csprojWatcher.onDidChange(uri)
OnDidChange(n) ==
    /\ Ready = {}
    /\ n \in notif
    /\ notif' = notif \ {n}
    /\ cache' = invalidate(n.path)
    /\ Stamp("change", IF n.own THEN "own" ELSE "external")
    /\ message' = ""
    /\ UNCHANGED <<disk, insts, parsing, suppressed, arrays, csprojRemovals,
                   lastArgs, timer, flights, tasks, ignorePaths, statusBar, collecting>>

clearIgnoredPathsCommand ==
    /\ Ready = {}
    /\ Event("clearIgnoredPaths", "")
    /\ ignorePaths' = <<>>
    /\ message' = ""
    /\ UNCHANGED <<disk, insts, cache, parsing, suppressed, notif, arrays,
                   csprojRemovals, lastArgs, timer, flights, tasks, statusBar,
                   collecting>>

Next ==
    \/ \E f \in Files : OnDidSaveTextDocument(f)
    \/ \E f \in Files : OnDidChangeActiveTextEditor(f)
    \/ \E f \in Files : AddCommand(f)
    \/ \E f \in Files : RemoveCommand(f)
    \/ \E f \in Files : OnDidDelete(f)
    \/ \E d \in Descriptors : ParseDone(d)
    \/ \E t \in TaskIds : NoCsprojCaught(t)
    \/ \E t \in TaskIds : AddResolved(t)
    \/ \E t \in TaskIds : RemoveResolved(t)
    \/ \E t \in TaskIds : DeleteResolved(t)
    \/ \E t \in TaskIds, pickResult \in {YES, NEVER, Undefined, Rejected} :
            AddAnswer(t, pickResult)
    \/ \E t \in TaskIds, ok \in BOOLEAN : PersistDone(t, ok)
    \/ Tick
    \/ TimerExpired
    \/ \E k \in ArrayIds, pickResult \in {YES, Undefined, Rejected} :
            FlushAnswer(k, pickResult)
    \/ \E k \in ArrayIds : FlushRemove(k)
    \/ \E k \in ArrayIds : FlushEnd(k)
    \/ \E d \in Descriptors, items \in DiskContents : ExternalChange(d, items)
    \/ \E n \in notif : OnDidChange(n)
    \/ clearIgnoredPathsCommand

Spec == Init /\ [][Next]_vars

(***************************************************************************)
(* The same program under the scheduling the host guarantees: the          *)
(* continuation of a settled promise runs, and a timer that is pending     *)
(* advances and fires.  Events of the environment, answers to prompts and  *)
(* the completion of I/O are not required to happen.                       *)
(***************************************************************************)
FairSpec ==
    /\ Spec
    /\ WF_vars(\E t \in TaskIds : NoCsprojCaught(t))
    /\ WF_vars(\E t \in TaskIds : AddResolved(t))
    /\ WF_vars(\E t \in TaskIds : RemoveResolved(t))
    /\ WF_vars(\E t \in TaskIds : DeleteResolved(t))
    /\ WF_vars(Tick)
    /\ WF_vars(TimerExpired)

(***************************************************************************)
(* getTypeForFile on its own: the initial state draws a file name and a    *)
(* value of the csproj.itemType setting, the one action applies the        *)
(* function.  A tag is any string, the empty string included.              *)
(***************************************************************************)
TypeTags == {"", "Content", "TypeScriptCompile"}
TypeKeys == {"*", ".ts", ".png"}

ItemTypes ==
    {Uniform(tag) : tag \in TypeTags}
        \cup {ByExtension(map) : map \in UNION {[K -> TypeTags] : K \in SUBSET TypeKeys}}

InitType ==
    /\ typeCall \in [fileName : Files, itemType : ItemTypes, type : {Undefined}]
    /\ disk = [d \in Descriptors |-> <<>>]
    /\ insts = <<>>
    /\ cache = [d \in Descriptors |-> NoHandle]
    /\ parsing = [d \in Descriptors |-> FALSE]
    /\ suppressed = FALSE
    /\ notif = {}
    /\ arrays = << <<>> >>
    /\ csprojRemovals = 1
    /\ lastArgs = 0
    /\ timer = TimerIdle
    /\ flights = [k \in ArrayIds |-> NoFlight]
    /\ tasks = [t \in TaskIds |-> NoTask]
    /\ ignorePaths = <<>>
    /\ statusBar = Hidden
    /\ last = [op |-> "activate", arg |-> ""]
    /\ events = 0
    /\ message = ""
    /\ collecting = TimerIdle

getTypeForFileCall ==
    /\ typeCall.type = Undefined
    /\ typeCall' = [typeCall EXCEPT
            !.type = getTypeForFile(typeCall.fileName, typeCall.itemType)]
    /\ UNCHANGED <<disk, insts, cache, parsing, suppressed, notif, arrays,
                   csprojRemovals, lastArgs, timer, flights, tasks, ignorePaths,
                   statusBar, last, events, message, collecting>>

NextType == getTypeForFileCall

SpecType == InitType /\ [][NextType]_vars

(***************************************************************************)
(* Properties.                                                             *)
(***************************************************************************)
\* a step in which handleFileDeletion queued a pending removal
Queued == last'.op = "deleteResolved" /\ arrays' # arrays

\* the invocations of the debounced function that start in a step
Started == {k \in ArrayIds : flights[k].pc = "none" /\ flights'[k].pc # "none"}

\* a flush that has started and has not ended
InProgress(k) == flights[k].pc \in {"prompt", "remove"}

\* C1: a burst of deletions of tracked files, each queued before the quiet
\* window after the previous one has elapsed, gets exactly one flush, which
\* covers all of them, and at most one confirmation.  Queuing a deletion never
\* starts a flush and restarts the wait; a flush starts only when the wait has
\* elapsed in full, there is one of it, it takes every removal queued since
\* the previous flush and leaves none behind, and it opens its confirmation
\* at its start or never.
C1_OneFlushPerBurst ==
    [][ /\ Queued => /\ Started = {}
                     /\ timer' = 0
                     /\ lastArgs' = csprojRemovals'
        /\ Started # {} =>
               /\ Started = {csprojRemovals}
               /\ timer = debounceDeleteTime
               /\ Len(arrays[csprojRemovals]) >= 1
               /\ arrays'[csprojRemovals] = arrays[csprojRemovals]
               /\ arrays'[csprojRemovals'] = <<>>
               /\ timer' = TimerIdle
        /\ \A k \in ArrayIds :
               flights'[k].pc = "prompt" => flights[k].pc \in {"none", "prompt"}
      ]_vars

\* three deletions were queued in one burst and one flush is confirming them
C1_Witness ==
    \E k \in ArrayIds :
        /\ flights[k].pc = "prompt"
        /\ Len(arrays[k]) = 3
        /\ \A j \in ArrayIds \ {k} : flights[j].pc = "none"

\* C2 (as claimed): when a flush that was confirmed or ran silently ends, no
\* file of its batch is listed by its descriptor on disk.
C2_FlushWritesBack ==
    [][ \A k \in ArrayIds :
          (flights[k].pc = "remove" /\ flights'[k].pc = "done") =>
              \A i \in 1..Len(arrays[k]) :
                  ~hasFile([fsPath |-> insts[arrays[k][i].csproj].fsPath,
                            items |-> disk'[insts[arrays[k][i].csproj].fsPath]],
                           arrays[k][i].filePath)
      ]_vars

\* C3 (as claimed): invalidation is suppressed only while a flush is in progress.
C3_SuppressionScoped == suppressed => \E k \in ArrayIds : InProgress(k)

\* C4: a deletion that arrives while a batch is being collected joins that
\* batch and only restarts the wait.  There is one array being collected and
\* one wait: the wait runs iff the array is non-empty, it is for that array,
\* and no flush, running or over, is on the array being collected.
C4_SingleBatch ==
    /\ [](/\ csprojRemovals = Len(arrays)
          /\ (timer # TimerIdle) <=> (arrays[csprojRemovals] # <<>>)
          /\ lastArgs = (IF timer # TimerIdle THEN csprojRemovals ELSE 0)
          /\ \A k \in ArrayIds : flights[k].pc # "none" => k < csprojRemovals)
    /\ [][ (Queued /\ timer # TimerIdle) =>
              /\ csprojRemovals' = csprojRemovals
              /\ \E r \in [csproj : 1..Len(insts), filePath : Files] :
                     arrays' = [arrays EXCEPT ![csprojRemovals] = Append(@, r)]
              /\ flights' = flights
              /\ timer' = 0
          ]_vars

\* a deletion joined a batch of one while a flush of an earlier batch awaits its answer
C4_Witness ==
    /\ last.op = "deleteResolved"
    /\ Len(arrays[csprojRemovals]) = 2
    /\ \E k \in ArrayIds : flights[k].pc = "prompt"

\* C5 (as claimed): the core writes a descriptor only with invalidation
\* suppressed, and the notification of its own write evicts nothing.
C5_WritesBracketed ==
    [][ /\ last'.op = "persisted" => suppressed
        /\ (last'.op = "change" /\ last'.arg = "own") => cache' = cache
      ]_vars

\* C6: a dismissed add prompt and a dismissed or declined deletion
\* confirmation change no descriptor, in memory or on disk, and leave the
\* ignore list as it is; the add command ends there, and a flush that was
\* not confirmed never runs a removal.
C6_DismissIsDecline ==
    /\ [][ (last'.op \in {"addAnswer", "flushAnswer"} /\ last'.arg = Undefined) =>
              /\ UNCHANGED <<insts, disk, ignorePaths>>
              /\ \A t \in TaskIds : tasks'[t] # tasks[t] => tasks'[t] = NoTask
              /\ \A k \in ArrayIds : flights'[k] # flights[k] => flights'[k].pc = "done"
          ]_vars
    /\ [](\A k \in ArrayIds :
             (flights[k].pc = "done" /\ ~flights[k].doDelete) => flights[k].i = 0)

\* an add prompt was dismissed (the status bar offers the file) and now a
\* deletion confirmation was dismissed
C6_Witness ==
    /\ last = [op |-> "flushAnswer", arg |-> Undefined]
    /\ statusBar = Shown(FALSE)
    /\ \E k \in ArrayIds : flights[k].pc = "done" /\ ~flights[k].doDelete

\* C7 (as claimed): when the change somebody else made to a descriptor file
\* is reported, the entry the cache held for it when it changed is discarded.
\* The claim is for every state; the states in which a flush is running its
\* removals, where the core itself is mutating, are left out here, so this
\* is the claim for the idle states and for the open confirmation.
C7_ExternalChangeEvicts ==
    [][ \A n \in notif \ notif' :
          (/\ ~n.own
           /\ n.cached # NoHandle
           /\ \A k \in ArrayIds : flights[k].pc # "remove")
              => cache'[n.path] # n.cached ]_vars

NoDuplicates(items) ==
    \A i, j \in 1..Len(items) : items[i].Include = items[j].Include => i = j

\* C8: no descriptor, in memory or on disk, lists a relative path twice.
C8_UniquePaths ==
    /\ \A h \in 1..Len(insts) : NoDuplicates(insts[h].items)
    /\ \A d \in Descriptors : NoDuplicates(disk[d])

\* two add requests for one file passed the hasFile check on the same
\* instance, and both prompts were answered Yes
C8_Witness ==
    \E t, u \in TaskIds :
        /\ t # u
        /\ tasks[t].pc = "persist" /\ tasks[u].pc = "persist"
        /\ tasks[t].kind = "add" /\ tasks[u].kind = "add"
        /\ tasks[t].prompt /\ tasks[u].prompt
        /\ tasks[t].fsPath = tasks[u].fsPath
        /\ tasks[t].csproj = tasks[u].csproj
        /\ hasFile(insts[tasks[t].csproj], tasks[t].fsPath)

\* C9 (as claimed): every instance the core mutates is the one the cache
\* holds for its path.
C9_MutatesCachedInstance ==
    [][ \A h \in 1..Len(insts) :
          insts'[h] # insts[h] => cache[insts[h].fsPath] = h ]_vars

\* C10 (as claimed): after a failed write the descriptor in memory holds
\* what its file holds.
C10_RollbackOnWriteFailure ==
    [][ last'.op = "persistFailed" =>
          \A t \in TaskIds :
              (tasks[t].pc = "persist" /\ tasks'[t].pc = "free") =>
                  insts'[tasks[t].csproj].items = disk'[insts[tasks[t].csproj].fsPath]
      ]_vars

\* C11: each queued deletion resets the debounce timer, it does not add to
\* it: the timer reads the time since the most recently queued deletion,
\* never more than the age of the batch; queuing sets it back to zero and
\* leaves the age of a batch that is being collected as it is; only the
\* clock advances it; and a flush starts only when it reads a full window
\* (debounceDeleteTime), however old the batch is by then.
C11_TimerReset ==
    /\ [](/\ (timer = TimerIdle) <=> (collecting = TimerIdle)
          /\ timer <= collecting
          /\ timer <= debounceDeleteTime)
    /\ [][ /\ Queued =>
               /\ timer' = 0
               /\ collecting' = (IF timer = TimerIdle THEN 0 ELSE collecting)
           /\ (timer # TimerIdle /\ timer' > timer) =>
               /\ last'.op = "tick"
               /\ collecting' - collecting = timer' - timer
           /\ Started # {} =>
               /\ timer = debounceDeleteTime
               /\ collecting >= debounceDeleteTime
               /\ last'.op = "flush"
          ]_vars

\* the batch has been collecting for a window or more, and no flush is due:
\* a deletion queued in the meantime restarted the wait
C11_Witness ==
    /\ timer # TimerIdle
    /\ timer < debounceDeleteTime
    /\ collecting >= debounceDeleteTime

\* C12: forFile rejects with NoCsprojError exactly for the files with no
\* descriptor above them, and the handler that asked catches it in its next
\* piece and ends there: the catch changes nothing but the handler's own
\* slot, and it shows a message, an error, only in the remove command; the
\* add command (save, active editor, explicit) and the delete notification
\* show nothing.
C12_NoCsprojRecovered ==
    /\ [](\A t \in TaskIds :
             tasks[t].pc = "rejected" => getPath(tasks[t].fsPath.dir) = NoCsproj)
    /\ [][ /\ \A t \in TaskIds :
                 (tasks[t].pc = "free" /\ tasks'[t].pc # "free"
                      /\ getPath(tasks'[t].fsPath.dir) = NoCsproj)
                     => tasks'[t].pc = "rejected"
           /\ \A t \in TaskIds :
                 tasks[t].pc = "rejected" =>
                     /\ last' = [op |-> "noCsproj", arg |-> tasks[t].kind]
                     /\ tasks' = [tasks EXCEPT ![t] = NoTask]
                     /\ message' = (IF tasks[t].kind = "remove" THEN "error" ELSE "")
                     /\ UNCHANGED <<disk, insts, cache, parsing, suppressed, notif,
                                    arrays, csprojRemovals, lastArgs, timer, flights,
                                    ignorePaths, statusBar, collecting>>
          ]_vars

\* a delete notification for a file with no descriptor was dropped without a
\* message while a batch is waiting for its quiet window
C12_Witness ==
    /\ last = [op |-> "noCsproj", arg |-> "delete"]
    /\ message = ""
    /\ timer > 0

\* C13: the answer 'Never For This File' puts the path of the prompt's file
\* on the ignore list; a path leaves the list only by the
\* clear-ignored-paths command, which empties it; and while a path is on the
\* list no save or active-editor event for it starts a handler: no slot is
\* taken, no parse is started, nothing is resolved and no prompt can follow.
C13_NeverIsIgnored ==
    [][ /\ \A t \in TaskIds :
             (last' = [op |-> "addAnswer", arg |-> NEVER] /\ tasks'[t] # tasks[t]) =>
                 /\ tasks[t].pc = "prompt"
                 /\ InList(ignorePaths', tasks[t].fsPath)
        /\ \A f \in Files :
             (InList(ignorePaths, f) /\ ~InList(ignorePaths', f)) =>
                 last'.op = "clearIgnoredPaths"
        /\ last'.op = "clearIgnoredPaths" => ignorePaths' = <<>>
        /\ \A f \in Files :
             (last'.op \in {"save", "editor"} /\ last'.arg = f.name
                  /\ InList(ignorePaths, f)) =>
                 /\ UNCHANGED <<tasks, parsing, cache, insts, ignorePaths>>
                 /\ message' = ""
        /\ \A t \in TaskIds :
             (tasks[t].pc = "free" /\ tasks'[t].pc # "free" /\ tasks'[t].prompt) =>
                 ~InList(ignorePaths, tasks'[t].fsPath)
      ]_vars

\* a.ts is on the ignore list, put there by the answer Never, and an
\* active-editor event for it has just been dropped
C13_Witness ==
    /\ last = [op |-> "editor", arg |-> FileA.name]
    /\ InList(ignorePaths, FileA)
    /\ \A t \in TaskIds : tasks[t] = NoTask

\* the item type the claim gives: a key counts when it is in the map
ClaimedType(fileName, itemType) ==
    IF itemType.kind = "string" THEN itemType.tag
    ELSE IF fileName.ext \in DOMAIN itemType.map THEN itemType.map[fileName.ext]
         ELSE IF "*" \in DOMAIN itemType.map THEN itemType.map["*"]
              ELSE "Content"

\* C14 (as claimed): for every rule and file name getTypeForFile returns the
\* uniform tag as it is, and for a map the tag of the file's extension if
\* the extension is a key, else the tag of '*' if '*' is a key, else 'Content'.
C14_ItemTypeResolution ==
    typeCall.type # Undefined =>
        typeCall.type = ClaimedType(typeCall.fileName, typeCall.itemType)

\* C15: when handleFileDeletion finds, after its descriptor resolved, that
\* the descriptor does not list the deleted file, it ends there: the pending
\* arrays, the array being collected, the debounce (its arguments and its
\* timer), the flushes, every descriptor in memory and on disk, the cache
\* and the suppression flag are as they were, and nothing is shown.
C15_UntrackedDeleteIgnored ==
    [][ \A t \in TaskIds :
          (/\ tasks[t].pc = "resolved" /\ tasks[t].kind = "delete"
           /\ tasks'[t] # tasks[t]
           /\ ~hasFile(insts[tasks[t].csproj], tasks[t].fsPath)) =>
              /\ tasks' = [tasks EXCEPT ![t] = NoTask]
              /\ message' = ""
              /\ UNCHANGED <<arrays, csprojRemovals, lastArgs, timer, collecting,
                             flights, insts, disk, cache, parsing, suppressed,
                             notif, ignorePaths, statusBar>>
      ]_vars

\* a batch is waiting, part of its quiet window has gone by, and a delete
\* notification for a file its descriptor does not list has just been dropped
C15_Witness ==
    /\ last.op = "deleteResolved"
    /\ timer > 0
    /\ arrays[csprojRemovals] # <<>>

\* the handlers waiting for the descriptor d
Waiting(d) ==
    {t \in TaskIds : tasks[t].pc = "resolve" /\ getPath(tasks[t].fsPath.dir) = d}

\* C16: resolutions of one descriptor path that are asked for before the
\* parse completes share that parse.  Every waiting handler waits on the
\* parse in flight for its path; a handler that joins starts nothing new;
\* instances come into being one at a time and only when a parse completes;
\* the parse gives its one new instance to every handler that waited, and
\* that instance is the one the cache holds.
C16_SingleParseInFlight ==
    /\ [](/\ \A d \in Descriptors : Waiting(d) # {} => parsing[d]
          /\ \A t \in TaskIds :
                 tasks[t].pc = "resolved" =>
                     /\ tasks[t].csproj \in 1..Len(insts)
                     /\ tasks[t].csproj = cache[insts[tasks[t].csproj].fsPath])
    /\ [][ /\ Len(insts') # Len(insts) =>
                 /\ Len(insts') = Len(insts) + 1
                 /\ last'.op = "parse"
           /\ \A t \in TaskIds :
                 (tasks[t].pc = "free" /\ tasks'[t].pc = "resolve") =>
                     /\ parsing'[getPath(tasks'[t].fsPath.dir)]
                     /\ \A d \in Descriptors : parsing[d] => parsing'[d]
                     /\ UNCHANGED <<insts, cache>>
           /\ \A d \in Descriptors :
                 (parsing[d] /\ ~parsing'[d]) =>
                     /\ Len(insts') = Len(insts) + 1
                     /\ cache'[d] = Len(insts')
                     /\ \A t \in Waiting(d) :
                            tasks'[t].pc = "resolved" /\ tasks'[t].csproj = Len(insts')
          ]_vars

\* a save event, an active-editor event and a delete notification asked for
\* App.csproj before its first parse completed, and the parse has completed:
\* there is one instance and the three handlers hold it
C16_Witness ==
    /\ last.op = "parse"
    /\ Len(insts) = 1
    /\ \A t \in TaskIds : tasks[t].pc = "resolved" /\ tasks[t].csproj = 1
    /\ \E t, u \in TaskIds : tasks[t].kind = "add" /\ tasks[u].kind = "delete"

\* C17 (as claimed), at the start of a confirmed batch: when the
\* confirmation of a flush is answered Yes, invalidation is suppressed, and
\* it is still suppressed as the removals of that batch begin, whatever
\* other flushes have started or ended while the confirmation was open.
C17_SuppressedThroughBatch ==
    [][ \A k \in ArrayIds :
          (flights[k].pc = "prompt" /\ flights'[k].pc = "remove") =>
              suppressed /\ suppressed' ]_vars

\* the arrays that hold queued removals no flush has taken
Unflushed == {k \in 1..Len(arrays) : arrays[k] # <<>> /\ flights[k].pc = "none"}

\* C18: every queued removal is handed to exactly one flush.  A removal is
\* queued on one array, the one being collected; arrays only grow, and an
\* array a flush has taken grows no more; every non-empty array but the one
\* being collected has been taken by a flush, the one being collected has
\* its wait running; a flush takes an array once and only a non-empty one.
\* With deletions stopping (the events of a run are bounded), whenever
\* removals are queued that no flush has taken, eventually a flush has
\* taken every queued removal.
C18_EveryRemovalFlushedOnce ==
    /\ [](\A k \in 1..Len(arrays) :
             /\ flights[k].pc # "none" => (arrays[k] # <<>> /\ k # csprojRemovals)
             /\ (arrays[k] # <<>> /\ flights[k].pc = "none") =>
                    (k = csprojRemovals /\ lastArgs = k /\ timer # TimerIdle))
    /\ [](\A k \in ArrayIds : k > Len(arrays) => flights[k].pc = "none")
    /\ [][ /\ Len(arrays') >= Len(arrays)
           /\ \A k \in 1..Len(arrays) :
                 /\ Len(arrays'[k]) >= Len(arrays[k])
                 /\ SubSeq(arrays'[k], 1, Len(arrays[k])) = arrays[k]
                 /\ flights[k].pc # "none" =>
                        (arrays'[k] = arrays[k] /\ flights'[k].pc # "none")
           /\ Queued =>
                 \E r \in [csproj : 1..Len(insts), filePath : Files] :
                     arrays' = [arrays EXCEPT ![csprojRemovals] = Append(@, r)]
          ]_vars
    /\ (Unflushed # {}) ~> (Unflushed = {})

\* a deletion was queued while the flush of an earlier batch awaited its
\* confirmation, and a second flush has taken it: two batches, two flushes
C18_Witness ==
    \E j, k \in ArrayIds :
        /\ j < k
        /\ flights[j].pc = "prompt"
        /\ flights[k].pc # "none"
        /\ Len(arrays[j]) >= 1 /\ Len(arrays[k]) >= 1

\* C19 (as claimed): at most one add prompt per file is open at any time.
\* Only the save and active-editor handlers open add prompts (prompt = true).
C19_OnePromptPerFile ==
    \A t, u \in TaskIds :
        (/\ tasks[t].pc = "prompt" /\ tasks[u].pc = "prompt"
         /\ tasks[t].prompt /\ tasks[u].prompt
         /\ tasks[t].fsPath = tasks[u].fsPath) => t = u
====
